---- MODULE Spec2Model ----
(***************************************************************************)
(* Model of index.js: the BigCommerce carrier app for MyRover.  The file   *)
(* holds two variants of the app (lines 1-238 and lines 240-450); the      *)
(* variable `variant` says which one the process runs.                     *)
(*                                                                         *)
(* Strings that the code inspects or transforms (query parameters, env     *)
(* values, URLs) are sequences of one-character strings; literal parts of  *)
(* a template that hold no reserved character are kept as one element.     *)
(* Opaque strings (tokens, messages) are TLA+ strings.                     *)
(***************************************************************************)
EXTENDS Integers, Sequences, FiniteSets, TLC

\* ------------------------------------------------------------ bounds
MaxReq == 2          \* OAuth callback requests a behaviour may hold
MaxTail == 1         \* length of the free part of a context in SpecHash

\* ------------------------------------------------------------ JS values
\* JavaScript's undefined; interpolated in a template it reads "undefined".
UNDEFINED == <<"undefined">>
EMPTY == <<>>

\* !x for a value that is undefined or a string
Falsy(x) == x = UNDEFINED \/ x = EMPTY

\* a || b
OrElse(a, b) == IF Falsy(a) THEN b ELSE a

STORES_PREFIX == <<"s", "t", "o", "r", "e", "s", "/">>

\* The smallest index at which pat occurs in s, 0 if it does not occur.
IndexOf(s, pat) ==
  LET hits == {i \in 1..(Len(s) - Len(pat) + 1) :
                 SubSeq(s, i, i + Len(pat) - 1) = pat}
  IN IF hits = {} THEN 0 ELSE CHOOSE i \in hits : \A j \in hits : i <= j

\* String.prototype.replace(pat, "") with a string pattern: removes the FIRST
\* occurrence of pat, wherever it is.
ReplaceFirst(s, pat) ==
  LET i == IndexOf(s, pat)
  IN IF i = 0 THEN s
     ELSE SubSeq(s, 1, i - 1) \o SubSeq(s, i + Len(pat), Len(s))

IsSpace(c) == c = " "

RECURSIVE TrimStart(_)
TrimStart(s) == IF s # EMPTY /\ IsSpace(Head(s)) THEN TrimStart(Tail(s)) ELSE s

RECURSIVE TrimEnd(_)
TrimEnd(s) ==
  IF s # EMPTY /\ IsSpace(s[Len(s)]) THEN TrimEnd(SubSeq(s, 1, Len(s) - 1)) ELSE s

\* String.prototype.trim()
Trim(s) == TrimEnd(TrimStart(s))

\* encodeURIComponent of one character: the reserved characters the model's
\* inputs use are percent-encoded, everything else is unreserved.
EncodeChar(c) ==
  CASE c = "/" -> <<"%2F">>
    [] c = ":" -> <<"%3A">>
    [] c = " " -> <<"%20">>
    [] c = "&" -> <<"%26">>
    [] OTHER -> <<c>>

RECURSIVE encodeURIComponent(_)
encodeURIComponent(s) ==
  IF s = EMPTY THEN EMPTY ELSE EncodeChar(Head(s)) \o encodeURIComponent(Tail(s))

\* ------------------------------------------------------------ store identifier
\* Variant 1, line 60: context.replace("stores/", "")
StoreHashV1(context) == ReplaceFirst(context, STORES_PREFIX)

\* Variant 2, lines 342-344:
\* (data?.context || context || "").replace("stores/", "").trim()
StoreHashV2(dataContext, context) ==
  Trim(ReplaceFirst(OrElse(OrElse(dataContext, context), EMPTY), STORES_PREFIX))

\* The identifier a callback of variant v derives; dataContext is the context
\* field of the token response (UNDEFINED when it has none).
StoreHash(v, dataContext, context) ==
  IF v = 1 THEN StoreHashV1(context) ELSE StoreHashV2(dataContext, context)

\* ------------------------------------------------------------ state
VARIABLES
  variant,       \* 1: the app of lines 1-238, 2: the app of lines 240-450
  CLIENT_ID,     \* process.env.BC_CLIENT_ID
  APP_URL,       \* process.env.APP_URL
  storeTokens,   \* the Map of line 18, as its set of entries
  callbacks,     \* the /api/auth/callback requests, each with its position
  req,           \* the last request a synchronous handler served
  res,           \* the response that handler sent
  lastWrite,     \* history: per store identifier, the last store write executed
  raced,         \* history: two callbacks for one identifier were outstanding at once
  hashArgs,      \* SpecHash: the arguments of the store identifier derivation
  hashResult     \* SpecHash: its result

vars == <<variant, CLIENT_ID, APP_URL, storeTokens, callbacks, req, res,
          lastWrite, raced, hashArgs, hashResult>>

\* ------------------------------------------------------------ inputs
Variants == {1, 2}

ClientIds == {UNDEFINED, <<"c", "i", "d">>}
AppUrls == {UNDEFINED, <<"h", ":", "/", "/", "a", "p", "p">>}

CtxA == STORES_PREFIX \o <<"a">>
CtxB == <<"b">>
CtxNoId == STORES_PREFIX

\* context query values of callback requests
Contexts == {UNDEFINED, CtxA, CtxNoId}
\* code query values
Codes == {EMPTY, <<"k">>}
NO_TOKEN == "undefined"
Tokens == {"T1", "T2"}

\* context and scope query values of install requests
InstallContexts == {UNDEFINED, EMPTY, CtxA, CtxB}
InstallScopes == {UNDEFINED, EMPTY, <<"x">>, <<"a", "_", "b", " ", "c">>}

\* store_hash values of an uninstall body (UNDEFINED: no body or no field)
StoreHashes == {UNDEFINED, EMPTY, <<"a">>, <<"b">>}

Payloads == {"{}", "{cart}"}
Methods == {"GET", "POST"}

\* What the token endpoint can answer: the fetch rejects (network failure), or a
\* response arrives with a status (ok or not) and a body that parses as JSON or
\* does not; a parsed success body holds access_token and maybe context.
TokenOutcomes ==
  {[rejected |-> TRUE, ok |-> FALSE, parses |-> FALSE,
    access_token |-> NO_TOKEN, context |-> UNDEFINED]}
  \cup {[rejected |-> FALSE, ok |-> FALSE, parses |-> p,
         access_token |-> NO_TOKEN, context |-> UNDEFINED] : p \in BOOLEAN}
  \cup {[rejected |-> FALSE, ok |-> TRUE, parses |-> FALSE,
         access_token |-> NO_TOKEN, context |-> UNDEFINED]}
  \cup {[rejected |-> FALSE, ok |-> TRUE, parses |-> TRUE,
         access_token |-> t, context |-> c] : t \in Tokens, c \in {UNDEFINED, CtxB}}

\* What the metadata API can answer.
MetadataOutcomes ==
  {[rejected |-> TRUE, ok |-> FALSE, parses |-> FALSE]}
  \cup {[rejected |-> FALSE, ok |-> o, parses |-> p] : o, p \in BOOLEAN}

\* ------------------------------------------------------------ responses
\* The payload of a shipping request is not kept: no handler reads it.
NoReq == [route |-> "none", method |-> "", context |-> UNDEFINED,
          scope |-> UNDEFINED, store_hash |-> UNDEFINED]
NoRes == [status |-> 0, body |-> "", location |-> EMPTY, data |-> <<>>]

Send(status, body) ==
  [status |-> status, body |-> body, location |-> EMPTY, data |-> <<>>]
\* res.redirect(url): 302 with the Location header
Redirect(url) ==
  [status |-> 302, body |-> "", location |-> url, data |-> <<>>]
\* res.status(status).json({data: ...}) or .json({success: true})
Json(status, body, data) ==
  [status |-> status, body |-> body, location |-> EMPTY, data |-> data]

\* ------------------------------------------------------------ credential store
\* Map.prototype.set / delete / has on the set of entries

\* A set that adds the entry without replacing the one the key has.
MapSetAppend(m, k, v) == m \cup {[storeHash |-> k, accessToken |-> v]}

MapSet(m, k, v) ==
  {e \in m : e.storeHash # k} \cup {[storeHash |-> k, accessToken |-> v]}
MapDelete(m, k) == {e \in m : e.storeHash # k}
MapHas(m, k) == \E e \in m : e.storeHash = k
EntriesOf(m, k) == {e \in m : e.storeHash = k}

\* ------------------------------------------------------------ /api/install
CALLBACK_PATH == <<"/", "api", "/", "auth", "/", "callback">>
AUTHORIZE == <<"https://login.bigcommerce.com/oauth2/authorize?client_id=">>

\* A check that forgets the scope.
InstallMissingParamsContextOnly(context, scope) == Falsy(context)

\* lines 35 and 267: !context || !scope
InstallMissingParams(context, scope) == Falsy(context) \/ Falsy(scope)

\* lines 28: !CLIENT_ID || !APP_URL (variant 1 only; variant 2 has no such check)
InstallNotConfigured(v, clientId, appUrl) ==
  v = 1 /\ (Falsy(clientId) \/ Falsy(appUrl))

\* lines 39-45 and 271-281
AuthorizeUrl(v, clientId, appUrl, context, scope) ==
  LET redirectUri == appUrl \o CALLBACK_PATH
  IN IF v = 1
     THEN AUTHORIZE \o clientId
          \o <<"&scope=">> \o encodeURIComponent(scope)
          \o <<"&redirect_uri=">> \o encodeURIComponent(redirectUri)
          \o <<"&response_type=code">>
          \o <<"&context=">> \o encodeURIComponent(context)
     ELSE AUTHORIZE \o encodeURIComponent(clientId)
          \o <<"&scope=">> \o encodeURIComponent(scope)
          \o <<"&context=">> \o encodeURIComponent(context)
          \o <<"&redirect_uri=">> \o encodeURIComponent(redirectUri)
          \o <<"&response_type=code">>

InstallHandler(v, clientId, appUrl, context, scope) ==
  IF InstallNotConfigured(v, clientId, appUrl)
  THEN Send(500, "Server not configured correctly (CLIENT_ID / APP_URL missing).")
  ELSE IF InstallMissingParams(context, scope)
  THEN Send(400, IF v = 1 THEN "Missing context or scope from BigCommerce."
                 ELSE "Missing context or scope")
  ELSE Redirect(AuthorizeUrl(v, clientId, appUrl, context, scope))

Install(context, scope) ==
  /\ req' = [NoReq EXCEPT !.route = "install", !.method = "GET",
                          !.context = context, !.scope = scope]
  /\ res' = InstallHandler(variant, CLIENT_ID, APP_URL, context, scope)
  /\ UNCHANGED <<variant, CLIENT_ID, APP_URL, storeTokens, callbacks,
                 lastWrite, raced, hashArgs, hashResult>>

\* ------------------------------------------------------------ /api/auth/callback
NoCallback == [pc |-> "idle", code |-> UNDEFINED, context |-> UNDEFINED,
               storeHash |-> EMPTY, exchange |-> "none",
               accessToken |-> NO_TOKEN, wrote |-> FALSE, res |-> NoRes]

\* A check that forgets the context.
CallbackMissingParamsCodeOnly(code, context) == Falsy(code)

\* lines 56 and 297: !code || !context
CallbackMissingParams(code, context) == Falsy(code) \/ Falsy(context)

\* lines 57 + 95-99 (the throw lands in the catch), and lines 299-301
CallbackMissingRes(v) ==
  IF v = 1 THEN Send(400, "OAuth callback failed. Check server logs for more details.")
  ELSE Send(400, "OAuth callback failed: missing code or context")

\* lines 95-99 and 359-361: the catch of the handler
CallbackCatchRes(v) ==
  IF v = 1 THEN Send(400, "OAuth callback failed. Check server logs for more details.")
  ELSE Send(500, "OAuth callback failed on server.")

\* lines 79-82 + 95-99, and lines 335-339: the exchange answered non-ok
CallbackExchangeFailedRes(v) ==
  IF v = 1 THEN Send(400, "OAuth callback failed. Check server logs for more details.")
  ELSE Send(500, "OAuth callback failed: token exchange error")

\* lines 91-94 and 350-358
CallbackConfirmRes(v) ==
  IF v = 1 THEN Send(200, "MyRover GTA Carrier installed successfully")
  ELSE Send(200, "MyRover Carrier App Installed")

\* Lines 52-63 and 291-331: the handler up to its first await.
AuthCallback(r, code, context) ==
  /\ callbacks[r].pc = "idle"
  /\ \A q \in 1..(r - 1) : callbacks[q].pc # "idle"
  /\ callbacks' =
       [callbacks EXCEPT ![r] =
          IF CallbackMissingParams(code, context)
          THEN [@ EXCEPT !.pc = "done", !.code = code, !.context = context,
                         !.res = CallbackMissingRes(variant)]
          ELSE [@ EXCEPT !.pc = "awaitToken", !.code = code, !.context = context,
                         !.storeHash = IF variant = 1 THEN StoreHashV1(context)
                                       ELSE EMPTY]]
  /\ UNCHANGED <<variant, CLIENT_ID, APP_URL, storeTokens, req, res,
                 lastWrite, raced, hashArgs, hashResult>>

\* Is another callback for identifier k outstanding?
OtherOutstanding(r, k) ==
  \E q \in DOMAIN callbacks :
    /\ q # r
    /\ callbacks[q].pc \in {"awaitToken", "awaitMetadata"}
    /\ callbacks[q].storeHash = k

RecordWrite(k, w) ==
  [x \in DOMAIN lastWrite \cup {k} |-> IF x = k THEN w ELSE lastWrite[x]]

\* Variant 1, lines 63-89: the token response arrives; on success the token is
\* stored and the metadata request goes out.
TokenResponseV1(r, out) ==
  LET c == callbacks[r]
      thrown == out.rejected \/ ~out.parses
  IN IF thrown
     THEN /\ callbacks' = [callbacks EXCEPT ![r] =
                 [@ EXCEPT !.pc = "done", !.exchange = "failed",
                           !.res = CallbackCatchRes(1)]]
          /\ UNCHANGED <<storeTokens, lastWrite, raced>>
     ELSE IF ~out.ok
     THEN /\ callbacks' = [callbacks EXCEPT ![r] =
                 [@ EXCEPT !.pc = "done", !.exchange = "failed",
                           !.res = CallbackExchangeFailedRes(1)]]
          /\ UNCHANGED <<storeTokens, lastWrite, raced>>
     ELSE /\ storeTokens' = MapSet(storeTokens, c.storeHash, out.access_token)
          /\ lastWrite' = RecordWrite(c.storeHash,
                                      [op |-> "set", token |-> out.access_token])
          /\ raced' = (raced \/ OtherOutstanding(r, c.storeHash))
          /\ callbacks' = [callbacks EXCEPT ![r] =
                 [@ EXCEPT !.pc = "awaitMetadata", !.exchange = "ok",
                           !.accessToken = out.access_token, !.wrote = TRUE]]

\* Variant 2, lines 327-358: nothing is stored.
TokenResponseV2(r, out) ==
  LET c == callbacks[r]
      dataContext == IF out.parses THEN out.context ELSE UNDEFINED
      dataToken == IF out.parses THEN out.access_token ELSE NO_TOKEN
  IN /\ callbacks' = [callbacks EXCEPT ![r] =
          IF out.rejected
          THEN [@ EXCEPT !.pc = "done", !.exchange = "failed",
                         !.res = CallbackCatchRes(2)]
          ELSE IF ~out.ok
          THEN [@ EXCEPT !.pc = "done", !.exchange = "failed",
                         !.res = CallbackExchangeFailedRes(2)]
          ELSE [@ EXCEPT !.pc = "done",
                         !.exchange = IF out.parses THEN "ok" ELSE "unparsed",
                         !.storeHash = StoreHashV2(dataContext, c.context),
                         !.accessToken = dataToken,
                         !.res = CallbackConfirmRes(2)]]
     /\ UNCHANGED <<storeTokens, lastWrite, raced>>

TokenResponse(r, out) ==
  /\ callbacks[r].pc = "awaitToken"
  /\ IF variant = 1 THEN TokenResponseV1(r, out) ELSE TokenResponseV2(r, out)
  /\ UNCHANGED <<variant, CLIENT_ID, APP_URL, req, res, hashArgs, hashResult>>

\* Lines 159-193: registerMetadata.  The fetch of line 170 is awaited outside any
\* try, so its rejection leaves the function as an exception; an unparseable
\* body (lines 181-185) and a non-ok status (lines 187-190) are logged only.
RegisterMetadata(out) == IF out.rejected THEN "throws" ELSE "returns"

\* Variant 1, lines 89-100: the metadata call settles and the handler answers.
MetadataResponse(r, out) ==
  /\ variant = 1
  /\ callbacks[r].pc = "awaitMetadata"
  /\ callbacks' = [callbacks EXCEPT ![r] =
        [@ EXCEPT !.pc = "done",
                  !.res = IF RegisterMetadata(out) = "throws"
                          THEN CallbackCatchRes(1) ELSE CallbackConfirmRes(1)]]
  /\ UNCHANGED <<variant, CLIENT_ID, APP_URL, storeTokens, req, res,
                 lastWrite, raced, hashArgs, hashResult>>

\* ------------------------------------------------------------ /api/uninstall
\* lines 217-221: the store after the handler; variant 2 (lines 385-389) keeps
\* no store and deletes nothing.
UninstallDeletes(v, store_hash) == v = 1 /\ ~Falsy(store_hash)

\* An uninstall that clears the whole map.
UninstallStoreClear(v, m, store_hash) ==
  IF UninstallDeletes(v, store_hash) THEN {} ELSE m

UninstallStore(v, m, store_hash) ==
  IF UninstallDeletes(v, store_hash) THEN MapDelete(m, store_hash) ELSE m

\* lines 222 and 388
UninstallRes(v, store_hash) == Json(200, "success:true", <<>>)

Uninstall(store_hash) ==
  /\ req' = [NoReq EXCEPT !.route = "uninstall", !.method = "POST",
                          !.store_hash = store_hash]
  /\ res' = UninstallRes(variant, store_hash)
  /\ storeTokens' = UninstallStore(variant, storeTokens, store_hash)
  /\ lastWrite' = IF UninstallDeletes(variant, store_hash)
                  THEN RecordWrite(store_hash, [op |-> "delete", token |-> NO_TOKEN])
                  ELSE lastWrite
  /\ raced' = (raced \/ (UninstallDeletes(variant, store_hash)
                         /\ OtherOutstanding(0, store_hash)))
  /\ UNCHANGED <<variant, CLIENT_ID, APP_URL, callbacks, hashArgs, hashResult>>

\* ------------------------------------------------------------ /v1/shipping/*
\* A carrier_quote; cost is in cents (19.95 is 1995).
Quote(code, display_name, cost) ==
  [code |-> code, display_name |-> display_name, cost |-> cost]

\* A rates handler that answers only once a credential is stored.
RatesHandlerNeedsToken(v, payload) ==
  IF storeTokens = {} THEN Send(401, "Unauthorized")
  ELSE Json(200, "data",
            << Quote("myrover_same_day_gta", "MyRover Same-Day Courier (GTA)", 1995),
               Quote("myrover_next_day_gta", "MyRover Next-Day Courier (GTA)", 1495) >>)

\* lines 126-153 and 409-435
RatesHandler(v, payload) ==
  Json(200, "data",
       IF v = 1
       THEN << Quote("myrover_same_day_gta", "MyRover Same-Day Courier (GTA)", 1995),
               Quote("myrover_next_day_gta", "MyRover Next-Day Courier (GTA)", 1495) >>
       ELSE << Quote("myrover_same_day_gta", "MyRover Same-Day Courier (GTA)", 1995),
               Quote("myrover_standard_gta", "MyRover Next-Day Courier (GTA)", 1250) >>)

ShippingRates(payload) ==
  /\ req' = [NoReq EXCEPT !.route = "rates", !.method = "POST"]
  /\ res' = RatesHandler(variant, payload)
  /\ UNCHANGED <<variant, CLIENT_ID, APP_URL, storeTokens, callbacks,
                 lastWrite, raced, hashArgs, hashResult>>

\* line 107 (app.all) and line 395 (app.post): does the route take the method?
ConnectionRouted(v, method) == v = 1 \/ method = "POST"

\* lines 107-120 and 395-403; a method the route does not take falls through to
\* the framework's 404.
ConnectionHandler(v, method, payload) ==
  IF ConnectionRouted(v, method)
  THEN Json(200, "data",
            <<[status |-> "OK", message |-> "MyRover GTA Carrier connection verified"]>>)
  ELSE Send(404, "Cannot " \o method \o " /v1/shipping/connection")

ShippingConnection(method, payload) ==
  /\ req' = [NoReq EXCEPT !.route = "connection", !.method = method]
  /\ res' = ConnectionHandler(variant, method, payload)
  /\ UNCHANGED <<variant, CLIENT_ID, APP_URL, storeTokens, callbacks,
                 lastWrite, raced, hashArgs, hashResult>>

\* ------------------------------------------------------------ specifications
NoHashArgs == [context |-> UNDEFINED, dataContext |-> UNDEFINED]
NoHashResult == [done |-> FALSE, value |-> EMPTY]

\* The process after line 18 / line 259.  Only /api/install reads the client id
\* and the base URL; SpecInstall runs it under every configuration.
Init ==
  /\ variant \in Variants
  /\ CLIENT_ID = <<"c", "i", "d">>
  /\ APP_URL = <<"h", ":", "/", "/", "a", "p", "p">>
  /\ storeTokens = {}
  /\ callbacks = [r \in 1..MaxReq |-> NoCallback]
  /\ req = NoReq
  /\ res = NoRes
  /\ lastWrite = <<>>
  /\ raced = FALSE
  /\ hashArgs = NoHashArgs
  /\ hashResult = NoHashResult

Next ==
  \/ \E r \in 1..MaxReq, code \in Codes, context \in Contexts :
       AuthCallback(r, code, context)
  \/ \E r \in 1..MaxReq, out \in TokenOutcomes : TokenResponse(r, out)
  \/ \E r \in 1..MaxReq, out \in MetadataOutcomes : MetadataResponse(r, out)
  \/ \E store_hash \in StoreHashes : Uninstall(store_hash)
  \/ \E payload \in Payloads : ShippingRates(payload)
  \/ \E method \in Methods, payload \in Payloads : ShippingConnection(method, payload)

Spec == Init /\ [][Next]_vars

\* /api/install under every process configuration.
InitInstall ==
  /\ variant \in Variants
  /\ CLIENT_ID \in ClientIds
  /\ APP_URL \in AppUrls
  /\ storeTokens = {}
  /\ callbacks = [r \in 1..MaxReq |-> NoCallback]
  /\ req = NoReq
  /\ res = NoRes
  /\ lastWrite = <<>>
  /\ raced = FALSE
  /\ hashArgs = NoHashArgs
  /\ hashResult = NoHashResult

NextInstall ==
  \E context \in InstallContexts, scope \in InstallScopes : Install(context, scope)

SpecInstall == InitInstall /\ [][NextInstall]_vars

\* The store identifier derivation on its own, over a wider set of contexts:
\* an optional leading character, an optional "stores/" or a near miss of it,
\* and a free tail.
TailChars == {"a", " "}
Tails ==
  UNION {[1..n -> TailChars] : n \in 0..MaxTail} \cup {STORES_PREFIX \o <<"a">>}
HashContexts ==
  {p \o m \o t :
     p \in {EMPTY, <<"x">>, <<" ">>},
     m \in {EMPTY, STORES_PREFIX, <<"S", "t", "o", "r", "e", "s", "/">>,
            <<"s", "t", "o", "r", "e", "/">>},
     t \in Tails} \ {EMPTY}
HashDataContexts == {UNDEFINED, EMPTY, CtxB, <<" ", "b">>}

InitHash ==
  /\ variant \in Variants
  /\ CLIENT_ID = <<"c", "i", "d">>
  /\ APP_URL = <<"h", ":", "/", "/", "a", "p", "p">>
  /\ storeTokens = {}
  /\ callbacks = [r \in 1..MaxReq |-> NoCallback]
  /\ req = NoReq
  /\ res = NoRes
  /\ lastWrite = <<>>
  /\ raced = FALSE
  /\ hashArgs \in [context : HashContexts, dataContext : HashDataContexts]
  /\ hashResult = NoHashResult

\* line 60 and lines 342-344, applied to the drawn arguments
DeriveStoreHash ==
  /\ ~hashResult.done
  /\ hashResult' =
       [done |-> TRUE,
        value |-> StoreHash(variant, hashArgs.dataContext, hashArgs.context)]
  /\ UNCHANGED <<variant, CLIENT_ID, APP_URL, storeTokens, callbacks, req, res,
                 lastWrite, raced, hashArgs>>

NextHash == DeriveStoreHash

SpecHash == InitHash /\ [][NextHash]_vars

\* ------------------------------------------------------------ claims
Done(r) == callbacks[r].pc = "done"
Slots == 1..MaxReq

\* The context with the prefix "stores/" stripped, as the claims define the
\* store identifier: the remainder after an exact leading "stores/", else the
\* context itself.
StartsWith(s, pat) == Len(s) >= Len(pat) /\ SubSeq(s, 1, Len(pat)) = pat
PrefixStripped(context) ==
  IF StartsWith(context, STORES_PREFIX)
  THEN SubSeq(context, Len(STORES_PREFIX) + 1, Len(context))
  ELSE context

Contains(s, sub) == IndexOf(s, sub) # 0

\* A step of a synchronous handler: it leaves every callback where it is.
SyncStep(route) == req'.route = route /\ callbacks' = callbacks

\* The step that completes a callback whose exchange succeeded.
C1_CompletionStep ==
  \A r \in Slots :
    (callbacks[r].pc # "done" /\ callbacks'[r].pc = "done"
       /\ ~Falsy(callbacks'[r].code) /\ ~Falsy(callbacks'[r].context)
       /\ callbacks'[r].exchange = "ok" /\ callbacks'[r].accessToken \in Tokens)
    => EntriesOf(storeTokens', PrefixStripped(callbacks'[r].context))
         = {[storeHash |-> PrefixStripped(callbacks'[r].context),
             accessToken |-> callbacks'[r].accessToken]}
\* C1: when a callback that carried a code and a context, and whose token
\* exchange succeeded with access_token T, completes, the store holds exactly
\* one entry for the identifier derived from the context, and it holds T.
C1_CallbackStoresToken == [][C1_CompletionStep]_vars

\* C2: a callback whose token exchange succeeded answers with the 200
\* confirmation page, whatever the metadata registration did.
C2_MetadataNeverFailsCallback ==
  \A r \in Slots :
    (Done(r) /\ callbacks[r].exchange = "ok")
    => (callbacks[r].res.status = 200
        /\ callbacks[r].res = CallbackConfirmRes(variant))

\* The step that receives a callback request without code or context.
C3_MissingParamsStep ==
  \A r \in Slots :
    (callbacks[r].pc = "idle" /\ callbacks'[r].pc # "idle"
       /\ (Falsy(callbacks'[r].code) \/ Falsy(callbacks'[r].context)))
    => (/\ callbacks'[r].pc = "done"
        /\ callbacks'[r].res.status \in 400..499
        /\ ~callbacks'[r].wrote
        /\ storeTokens' = storeTokens)
\* C3: a callback request whose code or context is missing or empty is
\* answered at once with a 4xx status and the credential store is the same
\* before and after it.
C3_MissingParamsRejected == [][C3_MissingParamsStep]_vars

C3_Witness ==
  \E r \in Slots :
    /\ Done(r)
    /\ Falsy(callbacks[r].context)
    /\ callbacks[r].res.status = 400
    /\ storeTokens # {}

\* C4 as claimed: an install request lacking context or scope is answered 400
\* without a redirect in every process configuration.
C4_Original ==
  (req.route = "install" /\ (Falsy(req.context) \/ Falsy(req.scope)))
  => (res.status = 400 /\ res.location = EMPTY)

\* C4 as amended: an install request lacking context or scope is never
\* redirected; it is answered 400, except by variant 1 when the client id or
\* the base URL is not configured, which answers 500.
C4_MissingParamsNoRedirect ==
  (req.route = "install" /\ (Falsy(req.context) \/ Falsy(req.scope)))
  => (/\ res.location = EMPTY
      /\ res.status = IF variant = 1 /\ (Falsy(CLIENT_ID) \/ Falsy(APP_URL))
                      THEN 500 ELSE 400)

C4_Witness ==
  /\ req.route = "install"
  /\ Falsy(req.scope) /\ ~Falsy(req.context)
  /\ variant = 1 /\ Falsy(APP_URL) /\ ~Falsy(CLIENT_ID)
  /\ res.status = 500

\* C5: an install request with context and scope is answered 500 without a
\* redirect when the client id or the base URL is not configured, and
\* otherwise redirected to the authorize endpoint with the client id, the
\* encoded scope, the encoded context, the callback URL and response type code.
C5_InstallRedirectOrConfigError ==
  (req.route = "install" /\ ~Falsy(req.context) /\ ~Falsy(req.scope))
  => IF Falsy(CLIENT_ID) \/ Falsy(APP_URL)
     THEN res.status = 500 /\ res.location = EMPTY
     ELSE /\ res.status = 302
          /\ StartsWith(res.location, AUTHORIZE \o CLIENT_ID)
          /\ Contains(res.location, <<"&scope=">> \o encodeURIComponent(req.scope))
          /\ Contains(res.location,
                      <<"&context=">> \o encodeURIComponent(req.context))
          /\ Contains(res.location,
                      <<"&redirect_uri=">>
                        \o encodeURIComponent(APP_URL \o CALLBACK_PATH))
          /\ Contains(res.location, <<"&response_type=code">>)

\* What the shipping endpoints last answered, and what their steps leave alone.
C6_ShippingResponses ==
  /\ req.route = "rates" =>
       /\ res.status = 200
       /\ Len(res.data) = 2
       /\ res.data[1] = [code |-> "myrover_same_day_gta",
                         display_name |-> "MyRover Same-Day Courier (GTA)",
                         cost |-> 1995]
       /\ res.data[2] = IF variant = 1
                        THEN [code |-> "myrover_next_day_gta",
                              display_name |-> "MyRover Next-Day Courier (GTA)",
                              cost |-> 1495]
                        ELSE [code |-> "myrover_standard_gta",
                              display_name |-> "MyRover Next-Day Courier (GTA)",
                              cost |-> 1250]
  /\ (req.route = "connection" /\ (variant = 1 \/ req.method = "POST")) =>
       /\ res.status = 200
       /\ Len(res.data) = 1
       /\ res.data[1].status = "OK"
       /\ res.data[1].message # ""
C6_ShippingStep ==
  (SyncStep("rates") \/ SyncStep("connection"))
  => (storeTokens' = storeTokens /\ lastWrite' = lastWrite)
\* C6: the shipping endpoints are stateless.  After any sequence of callbacks
\* and uninstalls and for any payload, the rates answer is 200 with the same
\* two quotes in the same order (same-day first, then next-day/standard), the
\* connection answer is 200 {status: "OK", message: non-empty}, and neither
\* request changes or depends on the credential store.
C6_ShippingStateless == []C6_ShippingResponses /\ [][C6_ShippingStep]_vars

C6_Witness ==
  /\ req.route = "rates"
  /\ res.status = 200
  /\ storeTokens # {}
  /\ \E k \in DOMAIN lastWrite : lastWrite[k].op = "delete"

\* The identifiers the store or an uninstall request can name.
KnownHashes == {e.storeHash : e \in storeTokens} \cup (StoreHashes \ {UNDEFINED})

\* C7 as claimed: for every store identifier s, present in the store or not,
\* the store has no entry for s after uninstall(s).
C7_Original ==
  \A s \in KnownHashes : ~MapHas(UninstallStore(variant, storeTokens, s), s)

\* An uninstall step, and uninstall applied twice to the current store.
C7_UninstallStep ==
  SyncStep("uninstall") =>
    /\ res'.status = 200
    /\ res'.body = "success:true"
    /\ IF Falsy(req'.store_hash)
       THEN storeTokens' = storeTokens
       ELSE /\ ~MapHas(storeTokens', req'.store_hash)
            /\ {e \in storeTokens' : e.storeHash # req'.store_hash}
                 = {e \in storeTokens : e.storeHash # req'.store_hash}
C7_UninstallTwice ==
  \A s \in KnownHashes \cup {UNDEFINED} :
    LET once == UninstallStore(variant, storeTokens, s)
    IN /\ UninstallStore(variant, once, s) = once
       /\ UninstallRes(variant, s).status = 200
       /\ ~Falsy(s) => ~MapHas(once, s)
       /\ Falsy(s) => once = storeTokens
\* C7 as amended: uninstall always answers 200 {success: true}; for every
\* non-empty store identifier s the store has no entry for s afterwards and
\* every other entry is unchanged, and a second uninstall(s) answers the same
\* and leaves the same store; a request with no identifier, or an empty one,
\* leaves the store unchanged.
C7_UninstallIdempotent == []C7_UninstallTwice /\ [][C7_UninstallStep]_vars

C7_Witness ==
  /\ req.route = "uninstall"
  /\ ~Falsy(req.store_hash)
  /\ \E r \in Slots : callbacks[r].wrote /\ callbacks[r].storeHash = req.store_hash
  /\ req.store_hash \in DOMAIN lastWrite
  /\ lastWrite[req.store_hash].op = "delete"
  /\ storeTokens # {}

\* C8: the store identifier is the context with an exact leading "stores/"
\* removed, and the context itself in every other case.
C8_ExactPrefixStrip ==
  hashResult.done =>
    LET c == IF variant = 1 THEN hashArgs.context
             ELSE OrElse(hashArgs.dataContext, hashArgs.context)
    IN hashResult.value = PrefixStripped(c)

\* The store against the history of writes, and the reach of one step.
Quiescent == \A r \in Slots : callbacks[r].pc \in {"idle", "done"}
C9_StoreState ==
  /\ \A e1, e2 \in storeTokens : e1.storeHash = e2.storeHash => e1 = e2
  /\ Quiescent =>
       /\ \A e \in storeTokens : e.storeHash \in DOMAIN lastWrite
       /\ \A k \in DOMAIN lastWrite :
            EntriesOf(storeTokens, k) =
              IF lastWrite[k].op = "set"
              THEN {[storeHash |-> k, accessToken |-> lastWrite[k].token]}
              ELSE {}
C9_WriteStep ==
  LET changed == (storeTokens \ storeTokens') \cup (storeTokens' \ storeTokens)
      written == {k \in DOMAIN lastWrite' :
                    k \notin DOMAIN lastWrite \/ lastWrite'[k] # lastWrite[k]}
  IN /\ Cardinality(written) <= 1
     /\ \A e \in changed : e.storeHash \in written
\* C9: under every interleaving of callbacks and uninstalls the store holds at
\* most one credential per identifier; once no request is outstanding, what it
\* holds for an identifier is the effect of the last write executed for it (the
\* token of the last set, nothing after a delete, nothing if never written);
\* and a step changes the entries of one identifier at most, the one it writes.
C9_LastWriteWins == []C9_StoreState /\ [][C9_WriteStep]_vars

C9_Witness ==
  /\ Quiescent
  /\ raced
  /\ \E r1, r2 \in Slots :
       /\ r1 # r2
       /\ Done(r1) /\ Done(r2)
       /\ callbacks[r1].wrote /\ callbacks[r2].wrote
       /\ callbacks[r1].storeHash = callbacks[r2].storeHash
       /\ callbacks[r1].accessToken # callbacks[r2].accessToken
       /\ MapHas(storeTokens, callbacks[r1].storeHash)

\* C10: a callback that ends with a failure response has made no write to the
\* credential store.
C10_FailedCallbackWritesNothing ==
  \A r \in Slots :
    (Done(r) /\ callbacks[r].res.status # 200) => ~callbacks[r].wrote

====
